---- MODULE Spec2Model ----
(***************************************************************************)
(* Model of generate_image (src/app.py), the POST /generate handler that   *)
(* proxies a prompt to the asynchronous inference API: submit, poll the    *)
(* status until it is terminal or the wall-clock timeout passes, fetch,    *)
(* extract the image url.                                                  *)
(***************************************************************************)
EXTENDS Integers, Sequences, FiniteSets, TLC

\* ---------------------------------------------------------------- bounds
\* Largest ordinary duration of one outbound call, in seconds.
MaxLatency == 1
\* Largest time a sleep overshoots the requested POLL_INTERVAL.
MaxOversleep == 1
\* Cap on status calls per request where polling is not what is explored
\* (concurrent requests, result shapes).
ShortPolls == 2
\* Length bound of the images lists the external service returns.
MaxImages == 2

\* ------------------------------------------------------ program constants
POLL_INTERVAL == 3
timeout == 120
DO_API_URL == "https://inference.do-ai.run/v1/async-invoke"

\* ------------------------------------------------------------------ state
VARIABLES
  MODEL_ACCESS_KEY,  \* the module-level credential read at import
  env,               \* what this run is explored against: the requests, the
                     \* bodies, durations and results the environment draws from
  now,               \* time.time(), in seconds
  jobs,              \* number of job ids the external service has issued
  req,               \* per request: position and locals of generate_image
  hist               \* per request: what it received, called and answered

vars == <<MODEL_ACCESS_KEY, env, now, jobs, req, hist>>

\* ------------------------------------------------------------ JSON values
\* Parsed JSON documents (and Python's None) as tagged records.
JNull == [t |-> "null"]
JStr(s) == [t |-> "str", s |-> s]
JNum(n) == [t |-> "num", n |-> n]
JList(xs) == [t |-> "list", xs |-> xs]
JObj(f) == [t |-> "obj", f |-> f]

EmptyObj == JObj(<<>>)
Obj1(k, v) == JObj([x \in {k} |-> v])

\* First character of the strings the model uses (Python's s[0]).
FirstChar(s) ==
  CASE s = "png" -> "p"
    [] s = "k" -> "k"
    [] s = "cat" -> "c"
    [] s = "u1" -> "u"
    [] s = "u2" -> "u"
    [] OTHER -> "?"

\* Python truthiness of a JSON value (`not x` is its negation).
Truthy(v) ==
  CASE v.t = "null" -> FALSE
    [] v.t = "str" -> v.s # ""
    [] v.t = "num" -> v.n # 0
    [] v.t = "list" -> Len(v.xs) > 0
    [] v.t = "obj" -> DOMAIN v.f # {}

\* Outcome of evaluating an expression: a value, or a raised exception.
Ok(v) == [exc |-> "none", v |-> v]
Raise(e) == [exc |-> e, v |-> JNull]

\* v[k] for a string key k.
GetItemStr(v, k) ==
  IF v.t = "obj"
    THEN IF k \in DOMAIN v.f THEN Ok(v.f[k]) ELSE Raise("KeyError")
    ELSE Raise("TypeError")

\* GetItemInt that takes a list from its end (v[-1-i]).
GetItemFromEnd(v, i) ==
  CASE v.t = "list" -> IF i < Len(v.xs) THEN Ok(v.xs[Len(v.xs) - i]) ELSE Raise("IndexError")
    [] v.t = "str" -> IF i < Len(v.s) THEN Ok(JStr(v.s)) ELSE Raise("IndexError")
    [] v.t = "obj" -> Raise("KeyError")
    [] OTHER -> Raise("TypeError")

\* v[i] for a 0-based integer index i >= 0.
GetItemInt(v, i) ==
  CASE v.t = "list" -> IF i < Len(v.xs) THEN Ok(v.xs[i + 1]) ELSE Raise("IndexError")
    [] v.t = "str" -> IF i < Len(v.s) THEN Ok(JStr(FirstChar(v.s))) ELSE Raise("IndexError")
    [] v.t = "obj" -> Raise("KeyError")
    [] OTHER -> Raise("TypeError")

\* v.get(k): dict.get gives None for a missing key; other types have no get.
DictGet(v, k) ==
  IF v.t = "obj"
    THEN IF k \in DOMAIN v.f THEN Ok(v.f[k]) ELSE Ok(JNull)
    ELSE Raise("AttributeError")

\* ------------------------------------------------------------- exceptions
\* requests.exceptions.RequestException and its subclasses (HTTPError from
\* raise_for_status, ConnectionError, and the JSONDecodeError of requests).
IsRequestException(e) == e \in {"RequestException", "RequestsJSONDecodeError"}

\* ------------------------------------------------------------- responses
NoResponse == [code |-> 0, key |-> "none", val |-> JNull]
\* jsonify({"error": msg}), code
Error(msg, code) == [code |-> code, key |-> "error", val |-> JStr(msg)]
\* jsonify({"imageUrl": image_url}) (Flask's default status)
ImageUrl(image_url) == [code |-> 200, key |-> "imageUrl", val |-> image_url]

MissingKey == Error("Server is missing MODEL_ACCESS_KEY environment variable.", 500)
NoPrompt == Error("No prompt provided.", 400)
SubmitFailed == Error("Failed to submit job to DO.", 500)
TimedOut == Error("Request timed out while waiting for model.", 504)
GenerationFailed == Error("Model generation failed.", 500)
ParseFailed == Error("Could not parse image URL from model response.", 500)

\* What the server answers when an exception leaves the handler.
Uncaught == [code |-> 500, key |-> "exception", val |-> JNull]

\* Catch without the RequestException clause.
CatchGeneric(e) == Error("An internal server error occurred", 500)

\* Catch without the final except Exception clause.
CatchRequestsOnly(e) ==
  IF e \in {"RequestException", "RequestsJSONDecodeError"}
    THEN Error("API request failed", 502)
    ELSE Uncaught

\* The except clauses of the handler: the response for an exception raised
\* inside the try block.
Catch(e) ==
  IF IsRequestException(e)
    THEN Error("API request failed", 502)
    ELSE Error("An internal server error occurred", 500)

\* ------------------------------------------------------------------ urls
\* f"{request_id}" of a JSON value.
Format(v) ==
  CASE v.t = "str" -> v.s
    [] v.t = "num" -> ToString(v.n)
    [] OTHER -> "?"

\* StatusUrl built from the handle the service issued before this one.
StatusUrlStale(request_id) == <<DO_API_URL, Format(JStr(ToString(jobs))), "status">>

\* The two urls built from request_id, as path segments.
StatusUrl(request_id) == <<DO_API_URL, Format(request_id), "status">>
ResultUrl(request_id) == <<DO_API_URL, Format(request_id)>>

\* ----------------------------------------------------- result extraction
Bind(o, F(_)) == IF o.exc # "none" THEN o ELSE F(o.v)

\* result_data["result"]["output"]["images"][0]["url"]
Subscripts(result_data) ==
  Bind(Bind(Bind(Bind(GetItemStr(result_data, "result"),
                      LAMBDA v : GetItemStr(v, "output")),
                 LAMBDA v : GetItemStr(v, "images")),
            LAMBDA v : GetItemInt(v, 0)),
       LAMBDA v : GetItemStr(v, "url"))

\* The inner try/except around the extraction.
Extract(result_data) ==
  LET o == Subscripts(result_data)
  IN  IF o.exc = "none" THEN ImageUrl(o.v)
      ELSE IF o.exc \in {"KeyError", "IndexError", "TypeError"} THEN ParseFailed
      ELSE Catch(o.exc)

\* ------------------------------------------- inputs from the environment
\* Values of os.environ.get("MODEL_ACCESS_KEY").
KeyValues == {JNull, JStr(""), JStr("k")}

\* Outcomes of request.json for the bodies a client can post.
RequestBodies ==
  { Raise("HTTPException"), Ok(JNull), Ok(JList(<<>>)), Ok(EmptyObj),
    Ok(Obj1("prompt", JNull)), Ok(Obj1("prompt", JStr(""))),
    Ok(Obj1("prompt", JStr("cat"))) }

\* Ways an outbound call fails: raise_for_status or the transport raises,
\* or .json() cannot decode the body (a RequestException in current
\* versions of requests, a plain ValueError in older ones).
CallFailures == {"RequestException", "RequestsJSONDecodeError", "ValueError"}

\* The id the service gives to its n-th job.
JobId(n) == JStr(ToString(n))

\* Answers of the submit call for the job id the service allocated.
SubmitOutcomes(id) ==
  { Raise(e) : e \in CallFailures } \cup
  { Ok(JList(<<>>)), Ok(EmptyObj), Ok(Obj1("request_id", JNull)),
    Ok(Obj1("request_id", JStr(""))), Ok(Obj1("request_id", id)) }

Terminal == {"COMPLETE", "FAILED", "ERROR"}
StatusNames == Terminal \cup {"IN_PROGRESS"}

\* Answers of a status call.
StatusOutcomes ==
  { Raise(e) : e \in CallFailures } \cup
  { Ok(JList(<<>>)), Ok(EmptyObj) } \cup
  { Ok(Obj1("status", JStr(s))) : s \in StatusNames }

\* Further answers of a status call whose status is none of the three the
\* code names: another case, null, a number, a state the service may add.
OtherStatusOutcomes ==
  { Ok(Obj1("status", v)) : v \in {JStr("complete"), JStr("IN_QUEUE"), JNull, JNum(0)} }

Urls == {"u1", "u2"}
SeqsUpTo(S, n) == UNION { [1..k -> S] : k \in 0..n }
ImageVals == { Obj1("url", JStr(u)) : u \in Urls } \cup { EmptyObj, JStr("png") }
ImagesVals ==
  { JList(xs) : xs \in SeqsUpTo(ImageVals, MaxImages) } \cup
  { JNull, JStr("png"), JStr(""), Obj1("url", JStr("u1")) }
OutputVals == { Obj1("images", i) : i \in ImagesVals } \cup { EmptyObj, JNull, JList(<<>>) }
ResultVals == { Obj1("output", o) : o \in OutputVals } \cup { EmptyObj, JNull, JStr("png") }
ResultBodies == { Obj1("result", r) : r \in ResultVals } \cup { EmptyObj, JNull, JList(<<>>) }

\* Answers of the fetch call.
FetchOutcomes(bodies) == { Raise(e) : e \in CallFailures } \cup { Ok(d) : d \in bodies }

\* Durations of an outbound call. requests is called without a timeout, so
\* a call may also hang for longer than the whole polling window.
Latencies == (0..MaxLatency) \cup {timeout + 1}

\* ------------------------------------------------- initial state, steps
\* The handler threads of the server.
Requests == {1, 2}

Max(a, b) == IF a >= b THEN a ELSE b

WellFormed(u) == Obj1("result", Obj1("output", Obj1("images", JList(<<Obj1("url", JStr(u))>>))))

\* One request, polled for as long as the code polls, few result bodies.
EnvPolling ==
  [ reqs |-> {1}, polls |-> timeout, latencies |-> Latencies,
    oversleeps |-> 0..MaxOversleep, bodies |-> RequestBodies,
    statuses |-> StatusOutcomes, results |-> {WellFormed("u1"), EmptyObj},
    calls |-> timeout ]

\* Several requests at once, short jobs.
EnvConcurrent ==
  [ reqs |-> Requests, polls |-> ShortPolls, latencies |-> {0, timeout + 1},
    oversleeps |-> {0}, bodies |-> {Ok(Obj1("prompt", JStr("cat"))), Ok(EmptyObj)},
    statuses |-> StatusOutcomes, results |-> {WellFormed("u1"), EmptyObj},
    calls |-> timeout ]

\* One request, short jobs, every status answer and every result body.
EnvShapes ==
  [ reqs |-> {1}, polls |-> ShortPolls, latencies |-> {0, timeout + 1},
    oversleeps |-> {0}, bodies |-> {Ok(Obj1("prompt", JStr("cat")))},
    statuses |-> StatusOutcomes \cup OtherStatusOutcomes, results |-> ResultBodies,
    calls |-> timeout ]

\* Status calls explored per request where the service may answer
\* non-terminal for ever: one more than a polling window of timeout seconds
\* with a sleep of POLL_INTERVAL per call can hold.
CallCap == timeout \div POLL_INTERVAL + 2

\* One request, a service that may stay non-terminal for ever.
EnvForever ==
  [ reqs |-> {1}, polls |-> timeout + timeout, latencies |-> 0..MaxLatency,
    oversleeps |-> {0},
    bodies |-> {Ok(Obj1("prompt", JStr("cat"))), Ok(EmptyObj)},
    statuses |-> StatusOutcomes, results |-> {WellFormed("u1"), EmptyObj},
    calls |-> CallCap ]

Req0 ==
  [ pc |-> "idle", request_id |-> JNull, status_url |-> <<>>, result_url |-> <<>>,
    start_time |-> 0, status |-> JNull, wake |-> 0, response |-> NoResponse ]

\* What an observer of request r has seen: the body posted, the calls on
\* the wire and their answers, the clock at the submit's return and at the
\* last deadline check, the responses sent.
Hist0 ==
  [ body |-> Ok(JNull), submits |-> 0, statuses |-> 0, fetches |-> 0, sleeps |-> 0,
    slept |-> 0, pending |-> 0, started |-> 0, checked |-> -1, called |-> {},
    issued |-> JNull, answer |-> Raise("unsent"), last |-> "unsent",
    raised |-> "none", callsAtRaise |-> 0, responses |-> 0, result_data |-> JNull,
    fetched |-> FALSE ]

InitCommon ==
  /\ MODEL_ACCESS_KEY \in KeyValues
  /\ now = 0
  /\ jobs = 0
  /\ req = [r \in Requests |-> Req0]
  /\ hist = [r \in Requests |-> Hist0]

Init == InitCommon /\ env = EnvPolling
InitConc == InitCommon /\ env = EnvConcurrent
InitShapes == InitCommon /\ env = EnvShapes
InitForever == InitCommon /\ env = EnvForever

\* return <response>: the handler ends with this response.
Return(r, resp, h) ==
  /\ req' = [req EXCEPT ![r] = [@ EXCEPT !.pc = "done", !.response = resp]]
  /\ hist' = [hist EXCEPT ![r] = [h EXCEPT !.responses = @ + 1]]

Calls(h) == h.submits + h.statuses + h.fetches

\* An exception e was raised in request r.
Raised(h, e) == [h EXCEPT !.raised = e, !.callsAtRaise = Calls(h)]

\* Validate with the prompt checked before the credential.
ValidatePromptFirst(key, body) ==
  LET prompt == DictGet(body.v, "prompt")
  IN  IF body.exc # "none" THEN Catch(body.exc)
      ELSE IF prompt.exc # "none" THEN Catch(prompt.exc)
      ELSE IF ~Truthy(prompt.v) THEN NoPrompt
      ELSE IF ~Truthy(key) THEN MissingKey
      ELSE NoResponse

\* Lines 176-183: the response that ends the request before any call, or
\* NoResponse when the credential and the prompt pass.
Validate(key, body) ==
  LET prompt == DictGet(body.v, "prompt")
  IN  IF ~Truthy(key) THEN MissingKey
      ELSE IF body.exc # "none" THEN Catch(body.exc)
      ELSE IF prompt.exc # "none" THEN Catch(prompt.exc)
      ELSE IF ~Truthy(prompt.v) THEN NoPrompt
      ELSE NoResponse

\* Lines 176-199: credential check, prompt validation, submit is sent.
Begin(r) ==
  /\ r \in env.reqs
  /\ req[r].pc = "idle"
  /\ \E body \in env.bodies :
       LET h == [hist[r] EXCEPT !.body = body]
           early == Validate(MODEL_ACCESS_KEY, body)
       IN  IF early # NoResponse THEN Return(r, early, h)
           ELSE /\ req' = [req EXCEPT ![r].pc = "submit"]
                /\ hist' = [hist EXCEPT ![r] = [h EXCEPT !.submits = @ + 1]]
  /\ UNCHANGED <<MODEL_ACCESS_KEY, env, now, jobs>>

\* Missing as a test for None only.
MissingIsNone(request_id) == request_id.t = "null"

\* Line 205: not request_id
Missing(request_id) == ~Truthy(request_id)

\* Lines 199-212: the submit call returns or raises; request_id, the two
\* urls and start_time are set.
SubmitReturn(r) ==
  /\ req[r].pc = "submit"
  /\ \E d \in env.latencies, o \in SubmitOutcomes(JobId(jobs + 1)) :
       LET request_id == DictGet(o.v, "request_id")
           gave == o = Ok(Obj1("request_id", JobId(jobs + 1)))
           h == [hist[r] EXCEPT !.answer = o, !.started = now',
                                !.issued = IF gave THEN JobId(jobs + 1) ELSE JNull]
       IN  /\ now' = now + d
           /\ jobs' = IF gave THEN jobs + 1 ELSE jobs
           /\ IF o.exc # "none" THEN Return(r, Catch(o.exc), Raised(h, o.exc))
              ELSE IF request_id.exc # "none"
                THEN Return(r, Catch(request_id.exc), Raised(h, request_id.exc))
              ELSE IF Missing(request_id.v) THEN Return(r, SubmitFailed, h)
              ELSE /\ req' = [req EXCEPT ![r] =
                        [@ EXCEPT !.pc = "check",
                                  !.request_id = request_id.v,
                                  !.status_url = StatusUrl(request_id.v),
                                  !.result_url = ResultUrl(request_id.v),
                                  !.start_time = now']]
                   /\ hist' = [hist EXCEPT ![r] = h]
  /\ UNCHANGED <<MODEL_ACCESS_KEY, env>>

\* Expired with the deadline one poll interval late.
ExpiredLate(elapsed) == elapsed > timeout + POLL_INTERVAL

\* Expired without a deadline: the loop has no timeout.
ExpiredNever(elapsed) == FALSE

\* Expired with the comparison not strict.
ExpiredAtDeadline(elapsed) == elapsed >= timeout

\* time.time() - start_time > timeout
Expired(elapsed) == elapsed > timeout

\* Lines 215-220: the deadline check at the top of the loop, then the
\* status call is sent.
CheckDeadline(r) ==
  /\ req[r].pc = "check"
  /\ LET h == [hist[r] EXCEPT !.checked = now]
     IN  IF Expired(now - req[r].start_time) THEN Return(r, TimedOut, h)
         ELSE /\ hist[r].statuses < env.calls
              /\ req' = [req EXCEPT ![r].pc = "status"]
              /\ hist' = [hist EXCEPT ![r] =
                   [h EXCEPT !.statuses = @ + 1,
                             !.called = @ \cup {req[r].status_url}]]
  /\ UNCHANGED <<MODEL_ACCESS_KEY, env, now, jobs>>

\* Dispatch without the break: COMPLETE is treated like any other status.
DispatchNoBreak(status) ==
  IF status \in {JStr("FAILED"), JStr("ERROR")} THEN "fail" ELSE "sleep"

\* Dispatch that knows FAILED only.
DispatchFailedOnly(status) ==
  IF status = JStr("COMPLETE") THEN "fetch"
  ELSE IF status = JStr("FAILED") THEN "fail"
  ELSE "sleep"

\* Dispatch that compares the status without regard to case.
DispatchIgnoreCase(status) ==
  IF status \in {JStr("COMPLETE"), JStr("complete")} THEN "fetch"
  ELSE IF status \in {JStr("FAILED"), JStr("ERROR")} THEN "fail"
  ELSE "sleep"

\* Dispatch that leaves the loop on every status that is not a failure.
DispatchEager(status) ==
  IF status \in {JStr("FAILED"), JStr("ERROR")} THEN "fail" ELSE "fetch"

\* What the loop does with a status: "fetch" (break), "fail" or "sleep".
Dispatch(status) ==
  IF status = JStr("COMPLETE") THEN "fetch"
  ELSE IF status \in {JStr("FAILED"), JStr("ERROR")} THEN "fail"
  ELSE "sleep"

\* The status an answer of the status call carries on the wire
\* ("" when it carries none).
Carried(o) ==
  IF o.exc # "none" THEN o.exc
  ELSE IF o.v.t = "obj" /\ "status" \in DOMAIN o.v.f /\ o.v.f["status"].t = "str"
    THEN o.v.f["status"].s
  ELSE IF o.v.t = "obj" THEN ""
  ELSE "not an object"

\* Lines 220-235: the status call returns or raises; the loop breaks and the
\* fetch is sent, or the request fails, or the thread goes to sleep.
StatusReturn(r) ==
  /\ req[r].pc = "status"
  /\ \E d \in env.latencies, o \in env.statuses :
       LET status == DictGet(o.v, "status")
           next == Dispatch(status.v)
           nonTerminal == o.exc = "none" /\ o.v.t = "obj" /\ Carried(o) \notin Terminal
           h == [hist[r] EXCEPT !.last = Carried(o),
                                !.pending = @ + IF nonTerminal THEN 1 ELSE 0]
       IN  /\ nonTerminal => hist[r].statuses < env.polls
           /\ now' = now + d
           /\ IF o.exc # "none" THEN Return(r, Catch(o.exc), Raised(h, o.exc))
              ELSE IF status.exc # "none"
                THEN Return(r, Catch(status.exc), Raised(h, status.exc))
              ELSE IF next = "fetch"
                THEN /\ req' = [req EXCEPT ![r] = [@ EXCEPT !.pc = "fetch", !.status = status.v]]
                     /\ hist' = [hist EXCEPT ![r] =
                          [h EXCEPT !.fetches = @ + 1,
                                    !.called = @ \cup {req[r].result_url}]]
              ELSE IF next = "fail"
                THEN /\ req' = [req EXCEPT ![r] =
                          [@ EXCEPT !.pc = "done", !.status = status.v,
                                    !.response = GenerationFailed]]
                     /\ hist' = [hist EXCEPT ![r] = [h EXCEPT !.responses = @ + 1]]
              ELSE /\ req' = [req EXCEPT ![r] =
                        [@ EXCEPT !.pc = "sleep", !.status = status.v,
                                  !.wake = now' + POLL_INTERVAL]]
                   /\ hist' = [hist EXCEPT ![r] =
                        [h EXCEPT !.sleeps = @ + 1, !.slept = @ + POLL_INTERVAL]]
  /\ UNCHANGED <<MODEL_ACCESS_KEY, env, jobs>>

\* Line 232: time.sleep(POLL_INTERVAL) returns, not before the interval has
\* passed; back to the top of the loop.
Wake(r) ==
  /\ req[r].pc = "sleep"
  /\ \E over \in env.oversleeps :
       now' = Max(now, req[r].wake + over)
  /\ req' = [req EXCEPT ![r].pc = "check"]
  /\ UNCHANGED <<MODEL_ACCESS_KEY, env, jobs, hist>>

\* Lines 235-247: the fetch returns or raises; the url is extracted.
FetchReturn(r) ==
  /\ req[r].pc = "fetch"
  /\ \E d \in env.latencies, o \in FetchOutcomes(env.results) :
       /\ now' = now + d
       /\ IF o.exc # "none" THEN Return(r, Catch(o.exc), Raised(hist[r], o.exc))
          ELSE Return(r, Extract(o.v),
                      [hist[r] EXCEPT !.result_data = o.v, !.fetched = TRUE])
  /\ UNCHANGED <<MODEL_ACCESS_KEY, env, jobs>>

Next ==
  \/ \E r \in Requests : Begin(r)
  \/ \E r \in Requests : SubmitReturn(r)
  \/ \E r \in Requests : CheckDeadline(r)
  \/ \E r \in Requests : StatusReturn(r)
  \/ \E r \in Requests : Wake(r)
  \/ \E r \in Requests : FetchReturn(r)

Spec == Init /\ [][Next]_vars
SpecConc == InitConc /\ [][Next]_vars
SpecShapes == InitShapes /\ [][Next]_vars

\* Every outbound call eventually returns or raises, every sleep ends, and
\* a thread that can run does.
Fairness ==
  \A r \in Requests :
    /\ WF_vars(Begin(r))
    /\ WF_vars(SubmitReturn(r))
    /\ WF_vars(CheckDeadline(r))
    /\ WF_vars(StatusReturn(r))
    /\ WF_vars(Wake(r))
    /\ WF_vars(FetchReturn(r))

SpecLive == InitForever /\ [][Next]_vars /\ Fairness

\* ================================================================ claims
Done(r) == req[r].pc = "done"
Began(r) == req[r].pc # "idle"
Elapsed(r) == hist[r].checked - hist[r].started

\* C1: a request whose polling saw no terminal status and no exception ends
\* with the 504 "timed out" response; the 504 is only returned at a deadline
\* check more than 120 seconds after the submit returned, and a status call
\* is only issued at a check where at most 120 seconds have elapsed.
C1_TimeoutOnlyPastDeadline ==
  \A r \in Requests :
    /\ req[r].response = TimedOut => Elapsed(r) > 120
    /\ req[r].pc = "status" => Elapsed(r) \in 0..120
    /\ (hist[r].checked >= 0 /\ Elapsed(r) > 120) => req[r].response = TimedOut
    /\ (Done(r) /\ hist[r].checked >= 0 /\ hist[r].raised = "none"
          /\ hist[r].last \notin Terminal) => req[r].response = TimedOut

\* A request times out on the first check past the deadline after having
\* polled at exactly 120 seconds.
W_C1 ==
  \E r \in Requests :
    /\ req[r].response = TimedOut
    /\ hist[r].statuses = 41
    /\ hist[r].started > 0
    /\ Elapsed(r) = 123

\* C2: when k non-terminal statuses are followed by COMPLETE, k + 1 status
\* calls were issued, then one fetch; one sleep of POLL_INTERVAL lies between
\* consecutive status calls and none follows COMPLETE.
C2_PollsThenOneFetch ==
  \A r \in Requests :
    /\ req[r].pc = "status" =>
         /\ hist[r].statuses = hist[r].pending + 1
         /\ hist[r].sleeps = hist[r].statuses - 1
    /\ hist[r].last = "COMPLETE" =>
         /\ req[r].pc \in {"fetch", "done"}
         /\ hist[r].statuses = hist[r].pending + 1
         /\ hist[r].fetches = 1
         /\ hist[r].sleeps = hist[r].pending
         /\ hist[r].slept = POLL_INTERVAL * hist[r].pending
         /\ hist[r].called = {req[r].status_url, req[r].result_url}

\* COMPLETE arrives after three non-terminal statuses and the fetch is out.
W_C2 ==
  \E r \in Requests :
    /\ hist[r].last = "COMPLETE"
    /\ hist[r].pending = 3
    /\ hist[r].fetches = 1

\* C3: a FAILED or ERROR status ends the request at once with the 500
\* "generation failed" response: no further status call, no sleep, no fetch.
C3_FailureStopsPolling ==
  \A r \in Requests :
    hist[r].last \in {"FAILED", "ERROR"} =>
      /\ Done(r)
      /\ req[r].response = GenerationFailed
      /\ req[r].response.code = 500
      /\ hist[r].statuses = hist[r].pending + 1
      /\ hist[r].sleeps = hist[r].pending
      /\ hist[r].fetches = 0

\* ERROR arrives on the second poll.
W_C3 ==
  \E r \in Requests :
    /\ hist[r].last = "ERROR"
    /\ hist[r].pending = 1
    /\ Done(r)

\* C4: without a credential every request, whatever its body, gets the 500
\* "missing MODEL_ACCESS_KEY" response and no outbound call is made.
C4_NoKeyNoCall ==
  ~Truthy(MODEL_ACCESS_KEY) =>
    \A r \in Requests :
      Began(r) =>
        /\ Done(r)
        /\ req[r].response = MissingKey
        /\ req[r].response.code = 500
        /\ Calls(hist[r]) = 0

\* No credential and a body without a prompt: still the credential error.
W_C4 ==
  \E r \in Requests :
    /\ ~Truthy(MODEL_ACCESS_KEY)
    /\ hist[r].body = Ok(EmptyObj)
    /\ Done(r)

\* A body from which no non-empty prompt can be read.
PromptMissing(body) ==
  \/ body.exc # "none"
  \/ body.v.t # "obj"
  \/ "prompt" \notin DOMAIN body.v.f
  \/ body.v.f["prompt"] \in {JNull, JStr("")}

\* C5: with a credential, every request whose prompt is missing or empty
\* (no prompt key, null or empty prompt, no JSON object body at all) gets a
\* 400 response and causes no outbound call.
C5_MissingPromptIs400 ==
  Truthy(MODEL_ACCESS_KEY) =>
    \A r \in Requests :
      (Began(r) /\ PromptMissing(hist[r].body)) =>
        /\ Done(r)
        /\ req[r].response.code = 400
        /\ Calls(hist[r]) = 0

\* An answer of the submit call that is a JSON object without a usable
\* request_id.
LacksId(o) ==
  /\ o.exc = "none"
  /\ o.v.t = "obj"
  /\ \/ "request_id" \notin DOMAIN o.v.f
     \/ o.v.f["request_id"] \in {JNull, JStr("")}

\* C6: a submit answer without a request_id (absent, null or empty) ends the
\* request with the 500 "failed to submit" response; no status call and no
\* fetch are issued.
C6_NoHandleNoPolling ==
  \A r \in Requests :
    LacksId(hist[r].answer) =>
      /\ Done(r)
      /\ req[r].response = SubmitFailed
      /\ req[r].response.code = 500
      /\ hist[r].statuses = 0
      /\ hist[r].fetches = 0
      /\ hist[r].called = {}

\* The submit answered with an empty request_id.
W_C6 ==
  \E r \in Requests :
    /\ hist[r].answer = Ok(Obj1("request_id", JStr("")))
    /\ Done(r)

\* C7: when an outbound call (submit, status or fetch) raises a
\* RequestException (transport failure or raise_for_status), the response
\* is a 502 error and no further outbound call is issued.
C7_TransportFailureIs502 ==
  \A r \in Requests :
    hist[r].raised = "RequestException" =>
      /\ Done(r)
      /\ req[r].response.code = 502
      /\ req[r].response.key = "error"
      /\ Calls(hist[r]) = hist[r].callsAtRaise

\* The fetch call raised after a poll that followed a sleep.
W_C7 ==
  \E r \in Requests :
    /\ hist[r].raised = "RequestException"
    /\ hist[r].fetches = 1
    /\ hist[r].sleeps = 1

\* result.output.images is a non-empty list whose first element has a url.
GoodShape(d) ==
  /\ d.t = "obj" /\ "result" \in DOMAIN d.f
  /\ LET res == d.f["result"]
     IN  /\ res.t = "obj" /\ "output" \in DOMAIN res.f
         /\ LET out == res.f["output"]
            IN  /\ out.t = "obj" /\ "images" \in DOMAIN out.f
                /\ LET imgs == out.f["images"]
                   IN  /\ imgs.t = "list" /\ Len(imgs.xs) > 0
                       /\ imgs.xs[1].t = "obj"
                       /\ "url" \in DOMAIN imgs.xs[1].f

ImagesOf(d) == d.f["result"].f["output"].f["images"].xs

\* C8: once the fetch has returned a JSON body, the response is 200 with
\* imageUrl equal to the url of the first image when the body has that
\* shape, and the 500 "could not parse" error for every other shape.
C8_ResponseFromFetchBody ==
  \A r \in Requests :
    hist[r].fetched =>
      /\ Done(r)
      /\ req[r].response =
           IF GoodShape(hist[r].result_data)
             THEN [code |-> 200, key |-> "imageUrl",
                   val |-> ImagesOf(hist[r].result_data)[1].f["url"]]
             ELSE ParseFailed

\* Two images with different urls: the first one is returned.
W_C8 ==
  \E r \in Requests :
    /\ hist[r].fetched
    /\ GoodShape(hist[r].result_data)
    /\ Len(ImagesOf(hist[r].result_data)) = 2
    /\ ImagesOf(hist[r].result_data)[2] = Obj1("url", JStr("u2"))
    /\ req[r].response = [code |-> 200, key |-> "imageUrl", val |-> JStr("u1")]

\* C9: a request that has ended has sent exactly one response, {imageUrl}
\* with 200 or {error} with 400, 500, 502 or 504; before that it has sent
\* none; no exception leaves the handler.
C9_OneWellFormedResponse ==
  \A r \in Requests :
    /\ Done(r) =>
         /\ hist[r].responses = 1
         /\ \/ req[r].response.key = "imageUrl" /\ req[r].response.code = 200
            \/ req[r].response.key = "error" /\ req[r].response.code \in {400, 500, 502, 504}
    /\ ~Done(r) =>
         /\ hist[r].responses = 0
         /\ req[r].response = NoResponse

\* An exception that is not a RequestException was raised (the status answer
\* was not an object) and the request ended with an error response.
W_C9 ==
  \E r \in Requests :
    /\ Done(r)
    /\ hist[r].raised = "AttributeError"
    /\ hist[r].statuses = 2
    /\ req[r].response.code = 500

\* Every status and fetch call of a request names the handle the service
\* issued to that request, and no handle issued to another request.
OwnHandle ==
  \A r \in Requests :
    \A u \in hist[r].called :
      /\ hist[r].issued # JNull
      /\ u[2] = hist[r].issued.s
      /\ \A q \in Requests \ {r} :
           hist[q].issued # JNull => u[2] # hist[q].issued.s

\* A step of one request leaves the locals, calls and response of every
\* other request as they were, and a response once sent stays.
Isolated ==
  \A r \in Requests :
    /\ (req'[r] # req[r] \/ hist'[r] # hist[r]) =>
         \A q \in Requests \ {r} : req'[q] = req[q] /\ hist'[q] = hist[q]
    /\ Done(r) => req'[r] = req[r]

\* C10: within a request status and fetch calls use the request_id of its
\* own submit; concurrent requests never use each other's request_id and
\* never change each other's response.
C10_HandlesNotShared == []OwnHandle /\ [][Isolated]_vars

\* Two requests, each with its own handle, both polled and fetched.
W_C10 ==
  /\ \A r \in Requests : hist[r].issued # JNull /\ hist[r].fetches = 1 /\ hist[r].sleeps = 1
  /\ hist[1].issued # hist[2].issued
  /\ req[1].response.code = 200
  /\ req[2].pc = "fetch"

\* The calls of a request so far are in the order submit, status*, fetch?.
CallOrder ==
  \A r \in Requests :
    /\ hist[r].submits <= 1
    /\ hist[r].fetches <= 1
    /\ hist[r].statuses > 0 =>
         /\ hist[r].submits = 1
         /\ hist[r].answer.exc = "none" /\ ~LacksId(hist[r].answer)
         /\ hist[r].issued # JNull
    /\ hist[r].fetches = 1 =>
         /\ hist[r].statuses >= 1
         /\ hist[r].last = "COMPLETE"
    /\ req[r].response.code = 200 =>
         /\ hist[r].submits = 1
         /\ hist[r].statuses >= 1
         /\ hist[r].fetches = 1

\* A step never issues a submit after a status call or a fetch, nor a status
\* call after the fetch.
CallOrderStep ==
  \A r \in Requests :
    /\ hist'[r].submits > hist[r].submits => hist[r].statuses = 0 /\ hist[r].fetches = 0
    /\ hist'[r].statuses > hist[r].statuses => hist[r].fetches = 0
    /\ hist'[r].fetches > hist[r].fetches => hist'[r].last = "COMPLETE"

\* C11: per request the outbound calls are one submit at most, then status
\* calls (only after the submit gave a non-empty request_id), then at most
\* one fetch, issued only when the latest status answer was COMPLETE; a 200
\* response implies one submit, at least one status call and one fetch.
C11_SubmitPollFetchOrder == []CallOrder /\ [][CallOrderStep]_vars

\* A 200 response after two status calls and the fetch.
W_C11 ==
  \E r \in Requests :
    /\ req[r].response.code = 200
    /\ hist[r].submits = 1
    /\ hist[r].statuses = 2
    /\ hist[r].fetches = 1

\* The step in which a status answer that is an object without COMPLETE,
\* FAILED or ERROR arrives puts the thread to sleep for POLL_INTERVAL and
\* sends nothing; the step that ends the sleep, not before the interval is
\* over, goes to the deadline check.
NonTerminalSleeps ==
  \A r \in Requests :
    /\ hist'[r].pending > hist[r].pending =>
         /\ req'[r].pc = "sleep"
         /\ req'[r].wake = now' + POLL_INTERVAL
         /\ req'[r].response = NoResponse
         /\ hist'[r].responses = 0
         /\ hist'[r].fetches = 0
         /\ hist'[r].sleeps = hist[r].sleeps + 1
         /\ hist'[r].slept = hist[r].slept + POLL_INTERVAL
    /\ (req[r].pc = "sleep" /\ req'[r] # req[r]) =>
         /\ req'[r].pc = "check"
         /\ now' >= req[r].wake
         /\ req'[r].response = NoResponse
         /\ hist'[r] = hist[r]

\* C12: every status other than COMPLETE, FAILED and ERROR, a missing status
\* field included, is non-terminal: the handler sleeps POLL_INTERVAL and goes
\* back to the deadline check, answering nothing and fetching nothing.
C12_OtherStatusKeepsPolling == [][NonTerminalSleeps]_vars

\* Back at the deadline check after the sleep that followed the status
\* "complete" in lower case.
W_C12 ==
  \E r \in Requests :
    /\ req[r].pc = "check"
    /\ hist[r].last = "complete"
    /\ hist[r].pending = hist[r].statuses
    /\ hist[r].sleeps = hist[r].statuses
    /\ now >= req[r].wake

\* C13: with calls that return or raise and sleeps that end after at least
\* POLL_INTERVAL, every request that was received is answered, also when
\* the service answers non-terminal statuses for ever.
C13_EveryRequestAnswered == \A r \in Requests : Began(r) ~> Done(r)

\* A request answered with the timeout after nothing but non-terminal
\* statuses, one sleep after each.
W_C13 ==
  \E r \in Requests :
    /\ Done(r)
    /\ req[r].response = TimedOut
    /\ hist[r].pending = hist[r].statuses
    /\ hist[r].sleeps = 41

\* C14: a request issues at most 41 status calls; the 41st is issued at a
\* deadline check exactly 120 seconds after the submit returned (the
\* comparison is strict), and if it is answered non-terminal the 504 comes
\* at the next check.
C14_AtMost41Polls ==
  \A r \in Requests :
    /\ hist[r].statuses <= 41
    /\ hist[r].statuses <= timeout \div POLL_INTERVAL + 1
    /\ hist[r].statuses = 41 =>
         /\ req[r].pc = "status" => Elapsed(r) = 120
         /\ (Done(r) /\ hist[r].raised = "none" /\ hist[r].last \notin Terminal) =>
              /\ req[r].response = TimedOut
              /\ Elapsed(r) >= 120 + POLL_INTERVAL

\* The 41st status call is out, issued at elapsed time 120.
W_C14 ==
  \E r \in Requests :
    /\ req[r].pc = "status"
    /\ hist[r].statuses = 41
    /\ hist[r].sleeps = 40
    /\ now - req[r].start_time = 120

====
